---- MODULE Spec2Model ----
(***************************************************************************)
(* AiManage server: the bootstrap sequence of server/src/main.rs (load     *)
(* .env, open the Postgres pool, build the actix-web server, bind          *)
(* 127.0.0.1:8080, run) and the routing table of server/src/router.rs.     *)
(*                                                                         *)
(* A request path is the sequence of its segments as the router sees it:   *)
(* "/api/v1/healthCheck" is <<"api","v1","healthCheck">>, a trailing slash *)
(* is a last empty segment, "/" is the empty sequence.                     *)
(***************************************************************************)
EXTENDS Integers, Sequences, FiniteSets, TLC

\* number of actix-web worker threads (the framework's default is the number
\* of cores); every worker calls the closure given to HttpServer::new once
NumWorkers == 2

Workers == 1..NumWorkers

NoValue == "<unset>"

\* connection strings the configuration may hold, and what the database
\* world answers to each of them
GoodUrl == "postgres://app:pw@db:5432/aimanage"
MalformedUrl == "not-a-connection-string"
UnreachableUrl == "postgres://app:pw@down:5432/aimanage"
BadAuthUrl == "postgres://app:wrong@db:5432/aimanage"

Urls == {GoodUrl, MalformedUrl, UnreachableUrl, BadAuthUrl}

\* a .env file in the working directory: none, or a file that may define
\* DATABASE_URL and may fail to parse after the lines it did load
DotenvFiles ==
    {[present |-> FALSE, url |-> NoValue, parses |-> FALSE]}
    \cup [present : {TRUE}, url : Urls \cup {NoValue}, parses : BOOLEAN]

\* HTTP requests
Methods == {"GET", "POST"}

HealthPath == <<"api", "v1", "healthCheck">>

Paths ==
    { HealthPath,
      << >>,
      <<"healthCheck">>,
      <<"api", "v1">>,
      <<"api", "v1", "users">>,
      <<"api", "v1", "healthcheck">>,
      <<"api", "v1", "healthCheck", "">>,
      <<"api", "v2", "healthCheck">> }

\* what a request carries besides its method and path: nothing, a query
\* string, a header, or a body
Extras ==
    { [query |-> "", headers |-> {}, body |-> ""],
      [query |-> "verbose=1", headers |-> {}, body |-> ""],
      [query |-> "", headers |-> {"X-Probe"}, body |-> ""],
      [query |-> "", headers |-> {}, body |-> "payload"] }

Requests ==
    { [method |-> m, path |-> p, query |-> e.query, headers |-> e.headers, body |-> e.body] :
        m \in Methods, p \in Paths, e \in Extras }

VARIABLES
    pc,               \* main's position
    environ,          \* DATABASE_URL in the process environment, or NoValue
    database_url,     \* init_db's local
    pool,             \* main's pool handle: 0 before init_db returned one
    poolsCreated,     \* pools connected so far in this run
    poolOpen,         \* the pool main holds has not been dropped
    checkedOut,       \* connections handlers hold checked out of the pool
    connectAttempts,  \* calls of Pool::connect
    bindAttempts,     \* calls of HttpServer::bind
    bound,            \* the listener socket on 127.0.0.1:8080 is open
    exit,             \* how the process ended
    app,              \* per worker: the App its factory call built
    slot              \* per worker: the request in flight or the response sent

vars == <<pc, environ, database_url, pool, poolsCreated, poolOpen, checkedOut,
          connectAttempts, bindAttempts, bound, exit, app, slot>>

Running == [kind |-> "running", cause |-> "none", code |-> 0]

NoApp == [built |-> FALSE, app_data |-> 0, services |-> << >>]

Down == [kind |-> "down"]
Idle == [kind |-> "idle"]

\* ---------------------------------------------------------------- router.rs

\* the handler with the body's last character lost
health_check_Typo == [status |-> 200, body |-> "Server is working"]

\* HttpResponse::Ok().body("Server is working!")
health_check == [status |-> 200, body |-> "Server is working!"]

\* the default service of an App or scope with no matching resource
NotFound == [status |-> 404, body |-> ""]

\* #[get("/healthCheck")]: the resource the macro registers, with its GET guard
health_check_service ==
    [path |-> <<"healthCheck">>, method |-> "GET", handler |-> "health_check"]

\* the handler registered on the configuration itself, outside the scope
router_init_NoScope ==
    << [prefix |-> << >>, resources |-> <<health_check_service>>] >>

\* cfg.service(web::scope("/api/v1").service(health_check))
router_init ==
    << [prefix |-> <<"api", "v1">>, resources |-> <<health_check_service>>] >>

IsPrefix(p, s) ==
    /\ Len(p) <= Len(s)
    /\ \A i \in 1..Len(p) : p[i] = s[i]

Rest(p, s) == SubSeq(s, Len(p) + 1, Len(s))

Min(S) == CHOOSE x \in S : \A y \in S : x <= y

CallHandler(name) ==
    IF name = "health_check" THEN health_check ELSE NotFound

\* the App's routing of request r: the first registered scope whose prefix
\* is the head of the path takes the request; in it the first resource whose
\* pattern is the whole rest of the path and whose method guard passes is
\* called; with no such scope or resource the default service answers.
\* Query string, headers and body play no part.
Dispatch(a, r) ==
    LET scopes == { i \in 1..Len(a.services) : IsPrefix(a.services[i].prefix, r.path) }
    IN  IF scopes = {}
        THEN NotFound
        ELSE LET sc == a.services[Min(scopes)]
                 rest == Rest(sc.prefix, r.path)
                 hits == { j \in 1..Len(sc.resources) :
                             /\ sc.resources[j].path = rest
                             /\ sc.resources[j].method = r.method }
             IN  IF hits = {}
                 THEN NotFound
                 ELSE CallHandler(sc.resources[Min(hits)].handler)

\* ------------------------------------------------------------------ db.rs

\* Pool::<Postgres>::connect(&database_url).await
PoolConnect(url) ==
    CASE url = GoodUrl -> "Ok"
      [] url = MalformedUrl -> "Err(Configuration)"
      [] url = UnreachableUrl -> "Err(Io)"
      [] url = BadAuthUrl -> "Err(Database)"
      [] OTHER -> "Err(Configuration)"

\* ---------------------------------------------------------------- main.rs

\* dotenvy::dotenv(): variables of the file that the environment does not
\* hold yet are set; the Result is thrown away by .ok()
dotenv(env, file) ==
    IF env # NoValue \/ ~file.present THEN env ELSE file.url

Panic(cause) == [kind |-> "panic", cause |-> cause, code |-> 101]
ReturnErr(cause) == [kind |-> "error", cause |-> cause, code |-> 1]
ReturnOk == [kind |-> "ok", cause |-> "Shutdown", code |-> 0]

Init ==
    /\ pc = "start"
    /\ environ \in Urls \cup {NoValue}
    /\ database_url = NoValue
    /\ pool = 0
    /\ poolsCreated = 0
    /\ poolOpen = FALSE
    /\ checkedOut = 0
    /\ connectAttempts = 0
    /\ bindAttempts = 0
    /\ bound = FALSE
    /\ exit = Running
    /\ app = [w \in Workers |-> NoApp]
    /\ slot = [w \in Workers |-> Down]

\* main.rs:9
LoadDotenv ==
    /\ pc = "start"
    /\ \E file \in DotenvFiles : environ' = dotenv(environ, file)
    /\ pc' = "init_db"
    /\ UNCHANGED <<database_url, pool, poolsCreated, poolOpen, checkedOut,
                   connectAttempts, bindAttempts, bound, exit, app, slot>>

\* init_db falling back to a built-in connection string (unwrap_or) where
\* the code panics
ReadEnv_DefaultUrl ==
    /\ pc = "init_db"
    /\ pc' = "connect"
    /\ database_url' = (IF environ = NoValue THEN GoodUrl ELSE environ)
    /\ UNCHANGED <<environ, pool, poolsCreated, poolOpen, checkedOut,
                   connectAttempts, bindAttempts, bound, exit, app, slot>>

\* db.rs:4
ReadEnv ==
    /\ pc = "init_db"
    /\ IF environ = NoValue
       THEN /\ pc' = "exited"
            /\ exit' = Panic("ConfigurationMissing")
            /\ UNCHANGED database_url
       ELSE /\ pc' = "connect"
            /\ database_url' = environ
            /\ UNCHANGED exit
    /\ UNCHANGED <<environ, pool, poolsCreated, poolOpen, checkedOut,
                   connectAttempts, bindAttempts, bound, app, slot>>

\* main going on to the server after a failed init_db, with no pool
Connect_IgnoreError ==
    /\ pc = "connect"
    /\ connectAttempts' = connectAttempts + 1
    /\ pc' = "bind"
    /\ IF PoolConnect(database_url) = "Ok"
       THEN /\ poolsCreated' = poolsCreated + 1
            /\ pool' = poolsCreated + 1
            /\ poolOpen' = TRUE
       ELSE UNCHANGED <<pool, poolsCreated, poolOpen>>
    /\ UNCHANGED <<environ, database_url, checkedOut, bindAttempts, bound, exit, app, slot>>

\* init_db connecting again after a failed attempt
Connect_Retry ==
    /\ pc = "connect"
    /\ connectAttempts' = connectAttempts + 1
    /\ IF PoolConnect(database_url) = "Ok"
       THEN /\ poolsCreated' = poolsCreated + 1
            /\ pool' = poolsCreated + 1
            /\ poolOpen' = TRUE
            /\ pc' = "bind"
       ELSE UNCHANGED <<pc, pool, poolsCreated, poolOpen>>
    /\ UNCHANGED <<environ, database_url, checkedOut, bindAttempts, bound, exit, app, slot>>

\* db.rs:6-7 and the expect of main.rs:12
Connect ==
    /\ pc = "connect"
    /\ connectAttempts' = connectAttempts + 1
    /\ IF PoolConnect(database_url) = "Ok"
       THEN /\ poolsCreated' = poolsCreated + 1
            /\ pool' = poolsCreated + 1
            /\ poolOpen' = TRUE
            /\ pc' = "bind"
            /\ UNCHANGED exit
       ELSE /\ pc' = "exited"
            /\ exit' = Panic("ConnectionError")
            /\ UNCHANGED <<pool, poolsCreated, poolOpen>>
    /\ UNCHANGED <<environ, database_url, checkedOut, bindAttempts, bound, app, slot>>

\* the bind error dropped (.ok()) and the server run all the same
Bind_IgnoreError ==
    /\ pc = "bind"
    /\ bindAttempts' = bindAttempts + 1
    /\ \E portFree \in BOOLEAN : bound' = portFree
    /\ pc' = "run"
    /\ UNCHANGED <<environ, database_url, pool, poolsCreated, poolOpen, checkedOut,
                   connectAttempts, exit, app, slot>>

\* the bind error logged and main returning Ok(())
Bind_ExitZero ==
    /\ pc = "bind"
    /\ bindAttempts' = bindAttempts + 1
    /\ \E portFree \in BOOLEAN :
          IF portFree
          THEN /\ bound' = TRUE
               /\ pc' = "run"
               /\ UNCHANGED <<exit, poolOpen>>
          ELSE /\ pc' = "exited"
               /\ exit' = [kind |-> "ok", cause |-> "BindError", code |-> 0]
               /\ poolOpen' = FALSE
               /\ UNCHANGED bound
    /\ UNCHANGED <<environ, database_url, pool, poolsCreated, checkedOut,
                   connectAttempts, app, slot>>

\* main.rs:14-19: HttpServer::new(factory).bind(("127.0.0.1", 8080))?
Bind ==
    /\ pc = "bind"
    /\ bindAttempts' = bindAttempts + 1
    /\ \E portFree \in BOOLEAN :
          IF portFree
          THEN /\ bound' = TRUE
               /\ pc' = "run"
               /\ UNCHANGED <<exit, poolOpen>>
          ELSE /\ pc' = "exited"
               /\ exit' = ReturnErr("BindError")
               /\ poolOpen' = FALSE
               /\ UNCHANGED bound
    /\ UNCHANGED <<environ, database_url, pool, poolsCreated, checkedOut,
                   connectAttempts, app, slot>>

\* the factory connecting a pool of its own where the code clones the handle
StartWorker_Reconnect(w) ==
    /\ pc = "run"
    /\ ~app[w].built
    /\ poolsCreated' = poolsCreated + 1
    /\ app' = [app EXCEPT ![w] =
                 [built |-> TRUE, app_data |-> poolsCreated + 1, services |-> router_init]]
    /\ slot' = [slot EXCEPT ![w] = Idle]
    /\ UNCHANGED <<pc, environ, database_url, pool, poolOpen, checkedOut,
                   connectAttempts, bindAttempts, bound, exit>>

\* main.rs:14-18: the closure given to HttpServer::new, called by worker w
\* as the server starts: App::new().app_data(pool.clone()).configure(router::init)
StartWorker(w) ==
    /\ pc = "run"
    /\ ~app[w].built
    /\ app' = [app EXCEPT ![w] = [built |-> TRUE, app_data |-> pool, services |-> router_init]]
    /\ slot' = [slot EXCEPT ![w] = Idle]
    /\ UNCHANGED <<pc, environ, database_url, pool, poolsCreated, poolOpen, checkedOut,
                   connectAttempts, bindAttempts, bound, exit>>

\* the server future dropped without .await: main returns at once
Serve_NoAwait ==
    /\ pc = "run"
    /\ \A w \in Workers : app[w].built
    /\ pc' = "exited"
    /\ exit' = ReturnOk
    /\ bound' = FALSE
    /\ poolOpen' = FALSE
    /\ slot' = [w \in Workers |-> Down]
    /\ UNCHANGED <<environ, database_url, pool, poolsCreated, checkedOut,
                   connectAttempts, bindAttempts, app>>

\* main.rs:20-21: .run().await with every worker started
Serve ==
    /\ pc = "run"
    /\ \A w \in Workers : app[w].built
    /\ pc' = "serving"
    /\ UNCHANGED <<environ, database_url, pool, poolsCreated, poolOpen, checkedOut,
                   connectAttempts, bindAttempts, bound, exit, app, slot>>

\* a worker takes a request off the listener
Accept(w, r) ==
    /\ pc = "serving"
    /\ slot[w].kind \in {"idle", "response"}
    /\ slot' = [slot EXCEPT ![w] = [kind |-> "pending", req |-> r]]
    /\ UNCHANGED <<pc, environ, database_url, pool, poolsCreated, poolOpen, checkedOut,
                   connectAttempts, bindAttempts, bound, exit, app>>

\* a handler that pings the database: it takes a connection out of the pool
Handle_Ping(w) ==
    /\ pc = "serving"
    /\ slot[w].kind = "pending"
    /\ checkedOut' = checkedOut + 1
    /\ slot' = [slot EXCEPT ![w] =
                  [kind |-> "response", resp |-> Dispatch(app[w], slot[w].req)]]
    /\ UNCHANGED <<pc, environ, database_url, pool, poolsCreated, poolOpen,
                   connectAttempts, bindAttempts, bound, exit, app>>

\* the worker's App routes the request and the response goes out
Handle(w) ==
    /\ pc = "serving"
    /\ slot[w].kind = "pending"
    /\ slot' = [slot EXCEPT ![w] =
                  [kind |-> "response", resp |-> Dispatch(app[w], slot[w].req)]]
    /\ UNCHANGED <<pc, environ, database_url, pool, poolsCreated, poolOpen, checkedOut,
                   connectAttempts, bindAttempts, bound, exit, app>>

\* main.rs:21: a termination signal stops the server and main returns Ok(())
Shutdown ==
    /\ pc = "serving"
    /\ pc' = "exited"
    /\ exit' = ReturnOk
    /\ bound' = FALSE
    /\ poolOpen' = FALSE
    /\ slot' = [w \in Workers |-> Down]
    /\ UNCHANGED <<environ, database_url, pool, poolsCreated, checkedOut,
                   connectAttempts, bindAttempts, app>>

Next ==
    \/ LoadDotenv
    \/ ReadEnv
    \/ Connect
    \/ Bind
    \/ \E w \in Workers : StartWorker(w)
    \/ Serve
    \/ \E w \in Workers, r \in Requests : Accept(w, r)
    \/ \E w \in Workers : Handle(w)
    \/ Shutdown

Spec == Init /\ [][Next]_vars

\* main is one sequential task the runtime drives to completion, and the
\* server starts each of its workers; requests and the termination signal
\* come from outside and are not forced
FairSpec ==
    /\ Spec
    /\ WF_vars(LoadDotenv)
    /\ WF_vars(ReadEnv)
    /\ WF_vars(Connect)
    /\ WF_vars(Bind)
    /\ WF_vars(\E w \in Workers : StartWorker(w))
    /\ WF_vars(Serve)

\* ----------------------------------------------------------------- claims

NeverServed ==
    /\ ~bound
    /\ \A w \in Workers : slot[w] = Down /\ ~app[w].built

\* C1: when DATABASE_URL is absent from the configuration init_db reads
\* (the environment after .env was loaded), startup ends in the panic of
\* init_db with no connection attempted and no bind ever attempted.
C1_MissingUrlNeverBinds ==
    (pc # "start" /\ environ = NoValue) =>
        /\ pc \in {"init_db", "exited"}
        /\ pc = "exited" => exit = Panic("ConfigurationMissing")
        /\ connectAttempts = 0
        /\ bindAttempts = 0
        /\ NeverServed

C1_Witness ==
    /\ pc = "exited"
    /\ environ = NoValue
    /\ exit = Panic("ConfigurationMissing")
    /\ bindAttempts = 0

\* C2: whenever the listener is bound or the server runs, init_db has
\* returned a pool that connected; and after any failure of pool
\* initialization (no DATABASE_URL, malformed string, unreachable database,
\* refused credentials) the process has terminated without binding or
\* starting a worker.
PoolInitFailed ==
    \/ pc \notin {"start", "init_db"} /\ environ = NoValue
    \/ connectAttempts >= 1 /\ PoolConnect(database_url) # "Ok"

C2_ServingImpliesPool ==
    /\ (bound \/ pc \in {"run", "serving"} \/ \E w \in Workers : slot[w] # Down) =>
          /\ pool # 0
          /\ poolOpen
          /\ connectAttempts = 1
          /\ PoolConnect(database_url) = "Ok"
    /\ PoolInitFailed =>
          /\ pc = "exited"
          /\ exit.kind = "panic"
          /\ pool = 0
          /\ bindAttempts = 0
          /\ NeverServed

C2_Witness ==
    /\ pc = "exited"
    /\ connectAttempts = 1
    /\ database_url = BadAuthUrl
    /\ exit = Panic("ConnectionError")

\* C3: a worker that handles a GET request for /api/v1/healthCheck answers
\* 200 with the body "Server is working!", whatever the request's query
\* string, headers and body, and whatever the worker answered before.
C3_HealthCheckAlwaysOk ==
    [][\A w \in Workers :
          ( /\ slot[w].kind = "pending"
            /\ slot'[w].kind = "response"
            /\ slot[w].req.method = "GET"
            /\ slot[w].req.path = HealthPath )
          => slot'[w].resp = [status |-> 200, body |-> "Server is working!"]]_vars

C3_Witness ==
    \E w \in Workers :
        /\ slot[w].kind = "response"
        /\ slot[w].resp = [status |-> 200, body |-> "Server is working!"]
        /\ \E v \in Workers \ {w} : slot[v].kind = "response"

\* C4: a worker that handles a request for any path other than
\* /api/v1/healthCheck answers with the not-found response.
C4_OtherPathsNotFound ==
    [][\A w \in Workers :
          ( /\ slot[w].kind = "pending"
            /\ slot'[w].kind = "response"
            /\ slot[w].req.path # HealthPath )
          => slot'[w].resp.status = 404]_vars

C4_Witness ==
    \E w \in Workers :
        /\ slot[w].kind = "response"
        /\ slot[w].resp.status = 404

\* C5 as stated: once the pool has connected, the serving state is
\* eventually reached.
C5_Original == (pc = "bind" /\ pool # 0) ~> (pc = "serving")

\* C5 amended: with DATABASE_URL naming a reachable database, startup
\* eventually reaches the serving state unless the bind of 127.0.0.1:8080
\* fails; once the listener is bound the serving state is always reached.
C5_Amended ==
    /\ (pc = "init_db" /\ PoolConnect(environ) = "Ok")
          ~> (pc = "serving" \/ exit = ReturnErr("BindError"))
    /\ (pc = "run" /\ bound) ~> (pc = "serving")

C5_Witness ==
    /\ pc = "serving"
    /\ bound
    /\ pool # 0
    /\ database_url = GoodUrl

\* C6: Pool::connect is called at most once in a run, and a failed call
\* has ended the process with the ConnectionError panic.
C6_NoRetry ==
    /\ connectAttempts <= 1
    /\ (connectAttempts = 1 /\ PoolConnect(database_url) # "Ok") =>
          /\ pc = "exited"
          /\ exit = Panic("ConnectionError")

C6_Witness ==
    /\ connectAttempts = 1
    /\ database_url = UnreachableUrl
    /\ pc = "exited"

\* C7 as stated: a run that ended either had reached the serving state or
\* ended by ConfigurationMissing or ConnectionError with a non-zero code.
C7_Original ==
    pc = "exited" =>
        \/ exit = ReturnOk
        \/ exit.cause \in {"ConfigurationMissing", "ConnectionError"} /\ exit.code # 0

\* C7 amended: startup has three fatal conditions, ConfigurationMissing,
\* ConnectionError and the failed bind of the listener; a run that ended
\* either had reached the serving state or ended by one of the three with
\* a non-zero exit code, after at most one connection attempt and one bind
\* attempt and without having served.
C7_Amended ==
    /\ connectAttempts <= 1
    /\ bindAttempts <= 1
    /\ pc # "exited" => exit = Running
    /\ pc = "exited" =>
          \/ exit = ReturnOk /\ bindAttempts = 1 /\ pool # 0
          \/ /\ exit.cause = "ConfigurationMissing"
             /\ exit.code # 0
             /\ environ = NoValue
             /\ connectAttempts = 0
             /\ NeverServed
          \/ /\ exit.cause = "ConnectionError"
             /\ exit.code # 0
             /\ PoolConnect(database_url) # "Ok"
             /\ bindAttempts = 0
             /\ NeverServed
          \/ /\ exit.cause = "BindError"
             /\ exit.code # 0
             /\ pool # 0
             /\ NeverServed

C7_Witness ==
    /\ pc = "exited"
    /\ exit.cause = "BindError"
    /\ exit.code # 0
    /\ pool # 0

\* C8: the step in which a worker answers a request changes nothing but
\* that worker's slot: the pool, its checked-out connections, main's state
\* and the other workers' requests stay as they were, also while other
\* workers have requests in flight; and a pending request can always be
\* answered.
C8_HandlerFrame ==
    /\ [][\A w \in Workers :
            (slot[w].kind = "pending" /\ slot'[w].kind = "response") =>
                /\ UNCHANGED <<pc, environ, database_url, pool, poolsCreated, poolOpen,
                               checkedOut, connectAttempts, bindAttempts, bound, exit, app>>
                /\ \A v \in Workers \ {w} : slot'[v] = slot[v]]_vars
    /\ [](\A w \in Workers : slot[w].kind = "pending" => ENABLED Handle(w))
    /\ [](checkedOut = 0)

C8_Witness ==
    \E w \in Workers :
        /\ slot[w].kind = "response"
        /\ \E v \in Workers \ {w} : slot[v].kind = "pending"
        /\ checkedOut = 0
        /\ poolOpen

\* C9: at most one pool is ever connected, main's handle never changes
\* once set, the pool stays open while the process runs, and every
\* worker's App holds that same pool.
C9_OnePool ==
    /\ poolsCreated <= 1
    /\ pool = poolsCreated
    /\ pc \in {"bind", "run", "serving"} => pool # 0 /\ poolOpen
    /\ \A w \in Workers : app[w].built => pool # 0 /\ app[w].app_data = pool

C9_Witness ==
    /\ pc = "serving"
    /\ poolsCreated = 1
    /\ \A w \in Workers : app[w].built /\ app[w].app_data = pool

\* C10: bind is called at most once; when it fails with the pool
\* established, main has returned the I/O error and no worker was started
\* or request served; the server runs only with the listener bound.
C10_BindFailure ==
    /\ bindAttempts <= 1
    /\ (bindAttempts = 1 /\ ~bound /\ exit # ReturnOk) =>
          /\ pc = "exited"
          /\ exit = ReturnErr("BindError")
          /\ pool # 0
          /\ NeverServed
    /\ (pc \in {"run", "serving"} \/ \E w \in Workers : slot[w] # Down) =>
          bound /\ bindAttempts = 1

C10_Witness ==
    /\ pc = "exited"
    /\ exit = ReturnErr("BindError")
    /\ bindAttempts = 1
    /\ connectAttempts = 1

====
